---- MODULE Spec2Model ----
(***************************************************************************)
(* Model of sine_wave_superposition.py: the wave evaluation function       *)
(* model_sinewave and the animation set up by plot_wave_superposition      *)
(* (the sample grid, the frame callback update and the FuncAnimation       *)
(* clock that drives it).                                                  *)
(*                                                                         *)
(* Numbers.  Positions, times and phases are exact rationals <<n, d>>.    *)
(* Angles are measured in turns, so the code's 2*np.pi is the rational 1.  *)
(* np.sin is a fixed-point approximation: the phase is reduced modulo one  *)
(* turn, quantised to PhaseRes ticks and mapped to an integer multiple of  *)
(* 1/SinScale.  Displacements are therefore integers in units of           *)
(* 1/SinScale.  Strings are sequences of ASCII codes, so that str.lower()  *)
(* is a real conversion.                                                   *)
(***************************************************************************)
EXTENDS Integers, Sequences, FiniteSets, TLC

VARIABLES
    pc,          \* where plot_wave_superposition is: "setup", "show", "raised"
    raised_in,   \* "none", or the function whose code raised: "setup" / "update"
    wave_1_params, wave_2_params,   \* the two dicts passed in
    x,           \* the sample grid (line 123), <<>> before set-up
    lines,       \* the five line objects' ydata and colour bin
    frame_seq,   \* the FuncAnimation iterator: next index of range(200)
    num,         \* argument of the last update call, -1 before the first
    prev,        \* argument of the update call before that one, or -1
    t1, t2,      \* the time the last update passed to each model_sinewave call
    memo,        \* harness: first output seen for each frame index called
    probe        \* harness of model_sinewave: its arguments and results

vars == <<pc, raised_in, wave_1_params, wave_2_params, x, lines, frame_seq,
          num, prev, t1, t2, memo, probe>>

----------------------------------------------------------------------------
\* Bounds of the enumerated inputs

MaxAmp == 2
MaxFreq == 2
MaxPeriods == 2
MaxProbeFrame == 1
MaxProbeTime == 12

\* Program constants
n == 500
Frames == 200
SpanWavelengths == 8
ColorLevels == 100

\* Fixed-point resolution of np.sin
PhaseRes == 240
SinScale == 1000

----------------------------------------------------------------------------
\* Rational arithmetic (Python / numpy float arithmetic, kept exact)

Rat(a, b) == <<a, b>>
RMul(a, b) == <<a[1] * b[1], a[2] * b[2]>>
RAdd(a, b) == <<a[1] * b[2] + b[1] * a[2], a[2] * b[2]>>
RDiv(a, b) == <<a[1] * b[2], a[2] * b[1]>>
RNorm(a) == IF a[2] < 0 THEN <<0 - a[1], 0 - a[2]>> ELSE a
REq(a, b) == a[1] * b[2] = b[1] * a[2]
RLess(a, b) == RNorm(a)[1] * RNorm(b)[2] < RNorm(b)[1] * RNorm(a)[2]

Max(a, b) == IF a >= b THEN a ELSE b

----------------------------------------------------------------------------
\* Strings as sequences of ASCII codes

S_right == <<114, 105, 103, 104, 116>>
S_left == <<108, 101, 102, 116>>
S_positive == <<112, 111, 115, 105, 116, 105, 118, 101>>
S_negative == <<110, 101, 103, 97, 116, 105, 118, 101>>
S_Right == <<82, 105, 103, 104, 116>>
S_LEFT == <<76, 69, 70, 84>>
S_POSITIVE == <<80, 79, 83, 73, 84, 73, 86, 69>>
S_Negative == <<78, 101, 103, 97, 116, 105, 118, 101>>
S_up == <<117, 112>>
S_flipped == <<102, 108, 105, 112, 112, 101, 100>>

\* Mutant: the comparison without .lower()
LowerIdentity(s) == s

\* str.lower() on ASCII: 'A'..'Z' (65..90) map to 'a'..'z'
Lower(s) == [i \in 1..Len(s) |-> IF s[i] >= 65 /\ s[i] <= 90 THEN s[i] + 32 ELSE s[i]]

----------------------------------------------------------------------------
\* np.sin, in fixed point.  The argument is a rational number of turns; it
\* is reduced modulo one turn and quantised (floor) to PhaseRes ticks.  The
\* value on a half turn is Bhaskara's rational approximation
\* 16 a (pi - a) / (5 pi^2 - 4 a (pi - a)), exact at 0, 1/12, 1/4, 5/12 and
\* 1/2 turn; the second half turn is its negation.

SinTicks(i) ==
    LET h == PhaseRes \div 2
        j == IF i < h THEN i ELSE i - h
        w == j * (PhaseRes - 2 * j)
        v == (SinScale * 32 * w) \div (5 * PhaseRes * PhaseRes - 8 * w)
    IN  IF i < h THEN v ELSE 0 - v

SinTable == [i \in 0..(PhaseRes - 1) |-> SinTicks(i)]

Sin(a) ==
    LET r == RNorm(a)
    IN  SinTable[((r[1] % r[2]) * PhaseRes) \div r[2]]

----------------------------------------------------------------------------
\* model_sinewave (lines 18-43)

\* 2 * np.pi, in turns
TwoPi == Rat(1, 1)

\* line 34: k = 2 * np.pi / wavelength
WaveNumber(wavelength) == RDiv(TwoPi, Rat(wavelength, 1))

\* Mutant: omega = np.pi * frequency
AngularFrequencyHalf(frequency) == RMul(Rat(1, 2), Rat(frequency, 1))

\* line 35: omega = 2 * np.pi * frequency
AngularFrequency(frequency) == RMul(TwoPi, Rat(frequency, 1))

\* Mutant: phase_polarity ignored
PolarityIgnored(phase_polarity) == 1

\* line 38
Polarity(phase_polarity) == IF Lower(phase_polarity) = S_positive THEN 1 ELSE -1

\* Mutant: the two directions exchanged
PropagationFactorSwapped(propagation) == IF Lower(propagation) = S_right THEN 1 ELSE -1

\* line 39
PropagationFactor(propagation) == IF Lower(propagation) = S_right THEN -1 ELSE 1

\* The result of a call: the returned array, or the exception that left it.
Raised == [raised |-> TRUE, y |-> <<>>]
Returned(y) == [raised |-> FALSE, y |-> y]

\* 2 * np.pi / wavelength is a Python float divided by a Python number: a
\* zero wavelength raises ZeroDivisionError at line 34.
model_sinewave(xs, t, A, wavelength, frequency, phi, propagation, phase_polarity) ==
    IF wavelength = 0 THEN Raised
    ELSE LET k == WaveNumber(wavelength)
             omega == AngularFrequency(frequency)
             polarity == Polarity(phase_polarity)
             propagation_factor == PropagationFactor(propagation)
             \* the scalar term of line 43: propagation_factor * omega * t
             wt == RMul(RMul(Rat(propagation_factor, 1), omega), t)
             pa == polarity * A
         IN  \* line 43: polarity * A * np.sin(k * x + wt + phi), elementwise
             Returned([i \in 1..Len(xs) |-> pa * Sin(RAdd(RAdd(RMul(k, xs[i]), wt), phi))])

\* model_sinewave(x, t, **params)
CallWave(xs, t, p) ==
    model_sinewave(xs, t, p.A, p.wavelength, p.frequency, p.phi, p.propagation, p.phase_polarity)

----------------------------------------------------------------------------
\* plot_wave_superposition (lines 46-184)

\* Mutant: np.linspace(..., endpoint=False)
LinspaceNoEndpoint(start, stop, count) ==
    [i \in 1..count |-> Rat(start * count + (i - 1) * (stop - start), count)]

\* np.linspace(start, stop, count): count samples, both ends included
Linspace(start, stop, count) ==
    [i \in 1..count |-> Rat(start * (count - 1) + (i - 1) * (stop - start), count - 1)]

\* line 77: the literal 0.025 = 1/40
TimeStep == Rat(1, 40)

\* Mutant: the division by max_frequency left out
FrameTimeUnscaled(k, max_frequency) == RMul(Rat(k, 1), TimeStep)

\* Mutant: time counted on from the frame of the previous call
FrameTimeOffset(k, max_frequency) ==
    RDiv(RMul(Rat(k + num + 1, 1), TimeStep), Rat(max_frequency, 1))

\* line 77: t = num * 0.025 / max_frequency
FrameTime(k, max_frequency) == RDiv(RMul(Rat(k, 1), TimeStep), Rat(max_frequency, 1))

\* Mutant: the sum normalised to the mean
SuperposeNormalised(yw1, yw2) == [i \in 1..Len(yw1) |-> (yw1[i] + yw2[i]) \div 2]

\* line 82: ywr = yw1 + yw2 (numpy elementwise addition)
Superpose(yw1, yw2) == [i \in 1..Len(yw1) |-> yw1[i] + yw2[i]]

\* lines 85-88: norm_val = num / 200 looked up in a colormap of N = 100 levels
ColorBin(k) == (k * ColorLevels) \div Frames

\* lines 126-130: a line object: its y data and its colour (-1: the colour
\* given to plot())
Line(ydata, color) == [ydata |-> ydata, color |-> color]
NoLines == <<>>
Zeros(count) == [i \in 1..count |-> 0]

\* lines 115-184 up to the creation of the animation.  np.arange at line 141
\* raises when its step max_wavelength // 1 is zero.
Setup ==
    /\ pc = "setup"
    /\ LET max_wavelength == Max(wave_1_params.wavelength, wave_2_params.wavelength)
           grid == Linspace(0, SpanWavelengths * max_wavelength, n)
       IN  /\ x' = grid
           /\ lines' = [w1 |-> Line(Zeros(n), -1), w2 |-> Line(Zeros(n), -1),
                        w1sp |-> Line(Zeros(n), -1), w2sp |-> Line(Zeros(n), -1),
                        wr |-> Line(Zeros(n), -1)]
           /\ IF max_wavelength = 0
              THEN /\ pc' = "raised"
                   /\ raised_in' = "setup"
              ELSE /\ pc' = "show"
                   /\ raised_in' = raised_in
    /\ UNCHANGED <<wave_1_params, wave_2_params, frame_seq, num, prev, t1, t2, memo, probe>>

\* The frame callback (lines 74-107), called with frame index k.  Leaves
\* pc, frame_seq, memo and probe to its caller.
update(k) ==
    LET max_frequency == Max(wave_1_params.frequency, wave_2_params.frequency)
        t == FrameTime(k, max_frequency)
        r1 == CallWave(x, t, wave_1_params)
        r2 == CallWave(x, t, wave_2_params)
        ywr == Superpose(r1.y, r2.y)
        c == ColorBin(k)
    IN  /\ num' = k
        /\ prev' = num
        /\ UNCHANGED <<wave_1_params, wave_2_params, x>>
        /\ IF max_frequency = 0
           THEN \* line 77: float division by zero
                /\ raised_in' = "update"
                /\ UNCHANGED <<lines, t1, t2>>
           ELSE IF r1.raised
           THEN /\ raised_in' = "update"
                /\ t1' = t
                /\ UNCHANGED <<lines, t2>>
           ELSE IF r2.raised
           THEN /\ raised_in' = "update"
                /\ t1' = t
                /\ t2' = t
                /\ UNCHANGED lines
           ELSE /\ raised_in' = raised_in
                /\ t1' = t
                /\ t2' = t
                /\ lines' = [w1 |-> Line(r1.y, c), w2 |-> Line(r2.y, c),
                             w1sp |-> Line(r1.y, c), w2sp |-> Line(r2.y, c),
                             wr |-> Line(ywr, c)]

\* An exception in the callback leaves the animation.
AfterUpdate == pc' = IF raised_in' = "none" THEN "show" ELSE "raised"

\* FuncAnimation(fig, update, frames=200, interval=25, blit=True), line 182:
\* frames=200 is range(200); without init_func the first draw calls update
\* with the first frame; repeat defaults to True.
StartDraw ==
    /\ pc = "show"
    /\ frame_seq = -1
    /\ update(0)
    /\ frame_seq' = 0
    /\ AfterUpdate
    /\ UNCHANGED <<memo, probe>>

Step ==
    /\ pc = "show"
    /\ frame_seq >= 0
    /\ frame_seq < Frames
    /\ update(frame_seq)
    /\ frame_seq' = frame_seq + 1
    /\ AfterUpdate
    /\ UNCHANGED <<memo, probe>>

\* Mutant: FuncAnimation(..., repeat=False)
RepeatDisabled ==
    /\ pc = "show"
    /\ frame_seq = Frames
    /\ pc' = "ended"
    /\ UNCHANGED <<raised_in, wave_1_params, wave_2_params, x, lines, frame_seq,
                   num, prev, t1, t2, memo, probe>>

Repeat ==
    /\ pc = "show"
    /\ frame_seq = Frames
    /\ update(0)
    /\ frame_seq' = 0
    /\ AfterUpdate
    /\ UNCHANGED <<memo, probe>>

----------------------------------------------------------------------------
\* Configurations: a base wave and every change of one of its parameters,
\* paired with the base wave (either way round) and with their own flipped
\* copy.  Wavelengths and frequencies include the zero and
\* negative values the code does not rule out.

Amplitudes == 1..MaxAmp
Wavelengths == {-4, 0, 4, 10}
Frequencies == -1..MaxFreq
Phases == {Rat(0, 1), Rat(1, 2)}
Propagations == {S_right, S_left}
Polarities == {S_positive, S_negative}

Wave(A, wavelength, frequency, phi, propagation, phase_polarity) ==
    [A |-> A, wavelength |-> wavelength, frequency |-> frequency, phi |-> phi,
     propagation |-> propagation, phase_polarity |-> phase_polarity]

Base == Wave(1, 10, 1, Rat(0, 1), S_right, S_positive)

Vary(b) ==
    {[b EXCEPT !.A = a] : a \in Amplitudes}
    \cup {[b EXCEPT !.wavelength = w] : w \in Wavelengths}
    \cup {[b EXCEPT !.frequency = f] : f \in Frequencies}
    \cup {[b EXCEPT !.phi = ph] : ph \in Phases}
    \cup {[b EXCEPT !.propagation = pr] : pr \in Propagations}
    \cup {[b EXCEPT !.phase_polarity = po] : po \in Polarities}

FlipPolarity(w) ==
    [w EXCEPT !.phase_polarity = IF @ = S_positive THEN S_negative ELSE S_positive]

Configs ==
    {<<v, Base>> : v \in Vary(Base)}
    \cup {<<Base, v>> : v \in Vary(Base)}
    \cup {<<v, FlipPolarity(v)>> : v \in Vary(Base)}

ProbeFrames == 0..MaxProbeFrame
NoMemo == [f \in ProbeFrames |-> [out |-> <<>>, calls |-> 0]]
NoProbe == [xs |-> <<>>, t |-> Rat(0, 1), p |-> Base, r |-> Raised, rprev |-> Raised,
            called |-> FALSE, periods |-> 0]

InitWith(cfgs) ==
    /\ pc = "setup"
    /\ raised_in = "none"
    /\ \E c \in cfgs :
          /\ wave_1_params = c[1]
          /\ wave_2_params = c[2]
    /\ x = <<>>
    /\ lines = NoLines
    /\ frame_seq = -1
    /\ num = -1
    /\ prev = -1
    /\ t1 = Rat(0, 1)
    /\ t2 = Rat(0, 1)
    /\ memo = NoMemo
    /\ probe = NoProbe

\* The program: set-up, then the animation clock.
Init == InitWith(Configs)

Next == Setup \/ StartDraw \/ Step \/ Repeat

Spec == Init /\ [][Next]_vars

----------------------------------------------------------------------------
\* update called directly, for any frame index in any order (the callback
\* is an ordinary function of num).  memo keeps, per frame index, the first
\* output delivered to the lines and how often it was called (up to 2).

Output(l) == <<l.w1.ydata, l.w2.ydata, l.wr.ydata>>

Call(f) ==
    /\ pc = "show"
    /\ update(f)
    /\ AfterUpdate
    /\ memo' = IF raised_in' # "none" THEN memo
               ELSE [memo EXCEPT ![f] =
                        [out |-> IF @.calls = 0 THEN Output(lines') ELSE @.out,
                         calls |-> IF @.calls < 2 THEN @.calls + 1 ELSE 2]]
    /\ UNCHANGED <<frame_seq, probe>>

CallAny == \E f \in ProbeFrames : Call(f)

InitAnyOrder == InitWith({<<v, Base>> : v \in Vary(Base)})

NextAnyOrder == Setup \/ CallAny

SpecAnyOrder == InitAnyOrder /\ [][NextAnyOrder]_vars

----------------------------------------------------------------------------
\* model_sinewave called on its own, at one position, then again one
\* temporal period 1/frequency later.

ProbeXs == {Rat(0, 1), Rat(5, 2)}
ProbeTimes == {Rat(m, 40) : m \in 0..MaxProbeTime}
ProbeWavelengths == {0, 4, 10}
ProbePropagations == {S_right, S_Right, S_left, S_LEFT, S_up}
ProbePolarities == {S_positive, S_POSITIVE, S_negative, S_Negative, S_flipped}

InitWave ==
    /\ pc = "probe"
    /\ raised_in = "none"
    /\ wave_1_params = Base
    /\ wave_2_params = Base
    /\ x = <<>>
    /\ lines = NoLines
    /\ frame_seq = -1
    /\ num = -1
    /\ prev = -1
    /\ t1 = Rat(0, 1)
    /\ t2 = Rat(0, 1)
    /\ memo = NoMemo
    /\ \E x0 \in ProbeXs, t0 \in ProbeTimes, A \in Amplitudes, wl \in ProbeWavelengths,
          f \in 1..MaxFreq, ph \in Phases, pr \in ProbePropagations, po \in ProbePolarities :
          probe = [xs |-> <<x0>>, t |-> t0, p |-> Wave(A, wl, f, ph, pr, po),
                   r |-> Raised, rprev |-> Raised, called |-> FALSE, periods |-> 0]

Evaluate ==
    /\ pc = "probe"
    /\ ~probe.called
    /\ probe' = [probe EXCEPT !.called = TRUE, !.r = CallWave(probe.xs, probe.t, probe.p)]
    /\ UNCHANGED <<pc, raised_in, wave_1_params, wave_2_params, x, lines, frame_seq,
                   num, prev, t1, t2, memo>>

\* T = 1 / frequency
Period(frequency) == RDiv(Rat(1, 1), Rat(frequency, 1))

EvaluateNextPeriod ==
    /\ pc = "probe"
    /\ probe.called
    /\ ~probe.r.raised
    /\ probe.periods < MaxPeriods
    /\ LET t == RAdd(probe.t, Period(probe.p.frequency))
       IN  probe' = [probe EXCEPT !.t = t, !.rprev = probe.r,
                                  !.r = CallWave(probe.xs, t, probe.p),
                                  !.periods = @ + 1]
    /\ UNCHANGED <<pc, raised_in, wave_1_params, wave_2_params, x, lines, frame_seq,
                   num, prev, t1, t2, memo>>

NextWave == Evaluate \/ EvaluateNextPeriod

SpecWave == InitWave /\ [][NextWave]_vars

----------------------------------------------------------------------------
\* Properties

NonPositive(w) == w.wavelength <= 0 \/ w.frequency <= 0
InvalidConfig == NonPositive(wave_1_params) \/ NonPositive(wave_2_params)
Delivered == num >= 0 /\ raised_in = "none"
SetUpDone == pc \in {"show", "raised"}
MaxWavelength == Max(wave_1_params.wavelength, wave_2_params.wavelength)
MaxFrequency == Max(wave_1_params.frequency, wave_2_params.frequency)

\* C1: when a wave's wavelength or frequency is non-positive, set-up fails
\* before update is invoked for any frame: update is never called and
\* nothing is raised inside a frame computation.
C1_EagerFailure ==
    InvalidConfig => /\ num = -1
                     /\ raised_in # "update"

CancelPair ==
    /\ wave_1_params.A = wave_2_params.A
    /\ wave_1_params.wavelength = wave_2_params.wavelength
    /\ wave_1_params.frequency = wave_2_params.frequency
    /\ wave_1_params.phi = wave_2_params.phi
    /\ wave_1_params.propagation = wave_2_params.propagation
    /\ {wave_1_params.phase_polarity, wave_2_params.phase_polarity} = {S_positive, S_negative}

\* C2: two waves equal in amplitude, wavelength, frequency, phase offset and
\* direction but of opposite polarity: the resultant delivered by update is
\* zero at every grid position, at every frame.
C2_Cancellation ==
    CancelPair /\ Delivered =>
        /\ Len(lines.wr.ydata) = n
        /\ \A i \in 1..n : lines.wr.ydata[i] = 0

C2_Witness ==
    /\ CancelPair
    /\ Delivered
    /\ num = Frames - 1
    /\ \E i \in 1..n : lines.w1.ydata[i] # 0

\* C3: at every frame the data of the resultant line is, position by
\* position, the sum of the data handed to the two component lines by the
\* same update call, unscaled.
C3_Additivity ==
    Delivered =>
        /\ Len(lines.wr.ydata) = n
        /\ Len(lines.w1.ydata) = n
        /\ Len(lines.w2.ydata) = n
        /\ \A i \in 1..n : lines.wr.ydata[i] = lines.w1.ydata[i] + lines.w2.ydata[i]
        /\ lines.w1sp.ydata = lines.w1.ydata
        /\ lines.w2sp.ydata = lines.w2.ydata
        /\ lines.w1.color = lines.wr.color
        /\ lines.w2.color = lines.wr.color

C3_Witness ==
    /\ Delivered
    /\ num > 0
    /\ \E i \in 1..n : /\ lines.w1.ydata[i] # 0
                       /\ lines.w2.ydata[i] # 0
                       /\ lines.w1.ydata[i] # lines.w2.ydata[i]
                       /\ lines.wr.ydata[i] % 2 # 0

\* C4: whatever update calls came before, in whatever order, the output of
\* update(f) is the output of the first update(f).
C4_Determinism ==
    pc = "show" /\ num >= 0 =>
        /\ memo[num].calls >= 1
        /\ memo[num].out = Output(lines)

\* frame num was called, then another frame with another output, then num again
C4_Witness ==
    /\ pc = "show"
    /\ num >= 0
    /\ prev >= 0
    /\ prev # num
    /\ memo[num].calls = 2
    /\ memo[prev].out # memo[num].out

\* C5 as stated: for wavelengths 4 and 10 the grid is 500 samples of the
\* half-open interval [0, 80): the first is 0 and every one is below 80.
C5_HalfOpenGrid ==
    SetUpDone /\ {wave_1_params.wavelength, wave_2_params.wavelength} = {4, 10} =>
        /\ Len(x) = 500
        /\ REq(x[1], Rat(0, 1))
        /\ \A i \in 1..Len(x) : RLess(x[i], Rat(80, 1))

\* C5 amended: the grid is 500 uniformly spaced samples of the closed
\* interval from 0 to 8 times the maximum wavelength, the last sample being
\* that end (80 for wavelengths 4 and 10), and it stays what set-up built.
C5_ClosedGrid ==
    SetUpDone =>
        /\ Len(x) = 500
        /\ \A i \in 1..Len(x) : REq(x[i], Rat((i - 1) * 8 * MaxWavelength, 499))
        /\ REq(x[1], Rat(0, 1))
        /\ REq(x[Len(x)], Rat(8 * MaxWavelength, 1))
        /\ ({wave_1_params.wavelength, wave_2_params.wavelength} = {4, 10} =>
               /\ REq(x[Len(x)], Rat(80, 1))
               /\ \A i \in 1..(Len(x) - 1) : RLess(x[i], Rat(80, 1)))

C5_Witness ==
    /\ pc = "show"
    /\ num = Frames - 1
    /\ wave_1_params.wavelength = 4
    /\ wave_2_params.wavelength = 10

QuarterPeriodCase ==
    /\ probe.called
    /\ probe.periods = 0
    /\ probe.xs = <<Rat(0, 1)>>
    /\ REq(probe.t, Rat(1, 4))
    /\ probe.p.A = 1
    /\ probe.p.wavelength = 10
    /\ probe.p.frequency = 1
    /\ probe.p.phi = Rat(0, 1)
    /\ probe.p.phase_polarity = S_positive

\* C6: wavelength 10, frequency 1, amplitude 1, phase offset 0, positive
\* polarity, x = 0, time 0.25: the right-propagating wave is -1 and the
\* left-propagating wave is +1 (in units of 1/SinScale).
C6_DirectionSign ==
    QuarterPeriodCase =>
        /\ ~probe.r.raised
        /\ (probe.p.propagation = S_right => probe.r.y = <<0 - SinScale>>)
        /\ (probe.p.propagation = S_left => probe.r.y = <<SinScale>>)

C6_Witness ==
    /\ QuarterPeriodCase
    /\ probe.p.propagation = S_right
    /\ probe.r.y = <<0 - SinScale>>

PeriodicityCase ==
    /\ probe.periods >= 1
    /\ probe.xs = <<Rat(0, 1)>>
    /\ probe.p.phi = Rat(0, 1)
    /\ probe.p.propagation \in {S_right, S_Right}

\* C7: phase offset 0, right propagation, x = 0: the value at time
\* t + 1/frequency is the value at time t.
C7_Periodicity ==
    PeriodicityCase =>
        /\ ~probe.r.raised
        /\ ~probe.rprev.raised
        /\ probe.r.y = probe.rprev.y

C7_Witness ==
    /\ PeriodicityCase
    /\ probe.periods = MaxPeriods
    /\ probe.r.y[1] # 0

\* C8: update evaluates both waves at the time num * 0.025 / max frequency;
\* frame 0 is time 0, and with a positive maximum frequency the time of
\* every earlier frame index is strictly smaller.
C8_FrameTime ==
    Delivered =>
        /\ t1[1] * 1000 * MaxFrequency = num * 25 * t1[2]
        /\ t2 = t1
        /\ (num = 0 => REq(t1, Rat(0, 1)))
        /\ (MaxFrequency > 0 =>
               \A m \in 0..(num - 1) : RLess(Rat(m * 25, 1000 * MaxFrequency), t1))

C8_Witness ==
    /\ Delivered
    /\ num = Frames - 1
    /\ wave_1_params.frequency > wave_2_params.frequency
    /\ wave_2_params.frequency = 1

Canonical(p) ==
    [p EXCEPT !.propagation = IF @ \in {S_right, S_Right} THEN S_right ELSE S_left,
              !.phase_polarity = IF @ \in {S_positive, S_POSITIVE} THEN S_positive
                                 ELSE S_negative]

\* C10: model_sinewave raises for no propagation or phase_polarity value
\* (only for a zero wavelength); whatever the letter case, 'right' gives the
\* right-propagating and 'positive' the positive-polarity result, and any
\* other string gives the left-propagating, negative-polarity result.
C10_NoRejection ==
    probe.called =>
        /\ (probe.r.raised <=> probe.p.wavelength = 0)
        /\ probe.r = CallWave(probe.xs, probe.t, Canonical(probe.p))
        /\ (probe.p.propagation \in {S_right, S_Right}
               <=> PropagationFactor(probe.p.propagation) = -1)
        /\ (probe.p.phase_polarity \in {S_positive, S_POSITIVE}
               <=> Polarity(probe.p.phase_polarity) = 1)

C10_Witness ==
    /\ probe.called
    /\ probe.p.propagation = S_up
    /\ probe.p.phase_polarity = S_flipped
    /\ ~probe.r.raised
    /\ probe.r.y[1] # 0
    /\ probe.r.y = CallWave(probe.xs, probe.t,
                            [probe.p EXCEPT !.propagation = S_left,
                                            !.phase_polarity = S_negative]).y

====
